---- MODULE Spec2Model ----
(***************************************************************************)
(* Model of the rectangle packer of sprite_builder_native.py:              *)
(*   - class MaxRectsBin (free-rectangle list, place, _overlaps, _split,   *)
(*     _prune), and                                                        *)
(*   - pack_rectangles (initial sizing, stable sort, attempt / grow loop,  *)
(*     tight bounding box).                                                *)
(* A rectangle is the tuple <<x, y, w, h>> of the source; a placement is   *)
(* <<name, x, y, w, h>> (the source's (name, im, x, y, w, h) without the   *)
(* image object, which the packer never reads).                            *)
(***************************************************************************)
EXTENDS Integers, Sequences, FiniteSets, TLC

VARIABLES
    pc,           \* position in pack_rectangles, or "bin" for a bare MaxRectsBin
    imgs,         \* argument of pack_rectangles: sequence of <<name, w, h>>
    sorted_imgs,  \* local sorted_imgs
    width,        \* local width  / MaxRectsBin.width
    height,       \* local height / MaxRectsBin.height
    free_rects,   \* MaxRectsBin.free_rects (a list: order decides ties)
    placed,       \* local placed of pack_rectangles
    idx,          \* position of the for loop over sorted_imgs
    final_w,      \* returned width
    final_h,      \* returned height
    err,          \* exception that left pack_rectangles, "" if none
    used,         \* history: the rectangles the current bin has handed out, in order
    last,         \* history: outcome of the latest place call
    before,       \* history: free_rects when the latest place call began
    dropped       \* history: entries _prune removed in the latest successful place

vars == <<pc, imgs, sorted_imgs, width, height, free_rects, placed, idx,
          final_w, final_h, err, used, last, before, dropped>>

\* ---------------------------------------------------------------- bounds
\* longest input of pack_rectangles
MaxItems == 3
\* largest item width / height given to pack_rectangles
MaxDim == 4
\* longest input that holds a degenerate (zero-sized) item
MaxBadItems == 2
\* largest side of a bare MaxRectsBin
MaxBinSide == 3
\* largest width / height handed to place on a bare MaxRectsBin
MaxPlaceDim == 3
\* most successful place calls made on a bare MaxRectsBin
MaxPlaced == 5
\* cap on the doubling of the bin (never binding within the bounds above)
MaxSide == 64

\* ---------------------------------------------------------------- helpers
Max2(a, b) == IF a >= b THEN a ELSE b

RECURSIVE MaxOver(_, _)
\* max(f(t) for t in s) over a non-empty sequence s of numbers
MaxOver(s, n) ==
    IF n = 1 THEN s[1] ELSE Max2(MaxOver(s, n - 1), s[n])

RECURSIVE SumOver(_, _)
\* sum(...) over the first n entries of a sequence of numbers
SumOver(s, n) ==
    IF n = 0 THEN 0 ELSE SumOver(s, n - 1) + s[n]

\* ---------------------------------------------------------------- MaxRectsBin
\* MaxRectsBin.__init__: the free list of a fresh bin
InitFree(w, h) == << <<0, 0, w, h>> >>

\* mutant of Overlaps: the vertical test reads the widths
OverlapsWidths(a, b) ==
    /\ a[1] < b[1] + b[3]
    /\ a[1] + a[3] > b[1]
    /\ a[2] < b[2] + b[3]
    /\ a[2] + a[3] > b[2]

\* MaxRectsBin._overlaps(a, b)
Overlaps(a, b) ==
    /\ a[1] < b[1] + b[3]
    /\ a[1] + a[3] > b[1]
    /\ a[2] < b[2] + b[4]
    /\ a[2] + a[4] > b[2]

\* mutant of Split: the right strip is sized as if the used rectangle
\* started at the free rectangle's left edge
SplitRightFromLeft(free, u) ==
    LET fx == free[1]
        fy == free[2]
        fw == free[3]
        fh == free[4]
        ux == u[1]
        uy == u[2]
        uw == u[3]
        uh == u[4]
        left   == IF ux > fx THEN << <<fx, fy, ux - fx, fh>> >> ELSE << >>
        right  == IF ux + uw < fx + fw
                  THEN << <<ux + uw, fy, fw - uw, fh>> >>
                  ELSE << >>
        top    == IF uy > fy THEN << <<fx, fy, fw, uy - fy>> >> ELSE << >>
        bottom == IF uy + uh < fy + fh
                  THEN << <<fx, uy + uh, fw, (fy + fh) - (uy + uh)>> >>
                  ELSE << >>
    IN left \o right \o top \o bottom

\* MaxRectsBin._split(free, used): up to four strips, in the source's order
Split(free, u) ==
    LET fx == free[1]
        fy == free[2]
        fw == free[3]
        fh == free[4]
        ux == u[1]
        uy == u[2]
        uw == u[3]
        uh == u[4]
        left   == IF ux > fx THEN << <<fx, fy, ux - fx, fh>> >> ELSE << >>
        right  == IF ux + uw < fx + fw
                  THEN << <<ux + uw, fy, (fx + fw) - (ux + uw), fh>> >>
                  ELSE << >>
        top    == IF uy > fy THEN << <<fx, fy, fw, uy - fy>> >> ELSE << >>
        bottom == IF uy + uh < fy + fh
                  THEN << <<fx, uy + uh, fw, (fy + fh) - (uy + uh)>> >>
                  ELSE << >>
    IN left \o right \o top \o bottom

\* the containment test of _prune: a lies inside b (all four bounds)
Inside(a, b) ==
    /\ a[1] >= b[1]
    /\ a[2] >= b[2]
    /\ a[1] + a[3] <= b[1] + b[3]
    /\ a[2] + a[4] <= b[2] + b[4]

RECURSIVE PruneFrom(_, _)
\* the outer loop of _prune from index i on: entry i is dropped when it lies
\* inside the entry at some other index j
PruneFrom(fr, i) ==
    IF i > Len(fr) THEN << >>
    ELSE LET contained == \E j \in 1..Len(fr) : j # i /\ Inside(fr[i], fr[j])
         IN (IF contained THEN << >> ELSE << fr[i] >>) \o PruneFrom(fr, i + 1)

\* mutant of Prune: nothing is dropped
PruneNothing(fr) == fr

\* MaxRectsBin._prune
Prune(fr) == PruneFrom(fr, 1)

RECURSIVE SplitAllFrom(_, _, _)
SplitAllFrom(fr, u, i) ==
    IF i > Len(fr) THEN << >>
    ELSE (IF Overlaps(fr[i], u) THEN Split(fr[i], u) ELSE << fr[i] >>)
         \o SplitAllFrom(fr, u, i + 1)

\* the loop of place that builds new_free
SplitAll(fr, u) == SplitAllFrom(fr, u, 1)

\* mutant of Fits: an exact fit is refused
FitsStrict(fr, w, h) == { i \in 1..Len(fr) : w < fr[i][3] /\ h < fr[i][4] }

\* line 54: the free rectangles a w x h rectangle fits in
Fits(fr, w, h) == { i \in 1..Len(fr) : w <= fr[i][3] /\ h <= fr[i][4] }

\* score = fw * fh - w * h
Score(f, w, h) == f[3] * f[4] - w * h

\* the selection loop of place: index of best_rect, 0 for None.  The loop
\* replaces best_rect only on a strictly smaller score, so the first entry
\* of least score wins.
BestRect(fr, w, h) ==
    LET c == Fits(fr, w, h)
    IN IF c = {} THEN 0
       ELSE CHOOSE i \in c :
              \A j \in c : \/ Score(fr[i], w, h) < Score(fr[j], w, h)
                           \/ /\ Score(fr[i], w, h) = Score(fr[j], w, h)
                              /\ i <= j

\* the rectangle place(w, h) hands out (best_rect's corner), given the index
PlacedRect(fr, b, w, h) == <<fr[b][1], fr[b][2], w, h>>

\* ---------------------------------------------------------------- pack_rectangles
RECURSIVE ISqrtFrom(_, _)
ISqrtFrom(n, r) ==
    IF (r + 1) * (r + 1) > n THEN r ELSE ISqrtFrom(n, r + 1)

\* int(math.sqrt(n)) for n >= 0: the floor of the square root
ISqrt(n) == ISqrtFrom(n, 0)

\* sum(w * h for _, _, w, h in imgs)
TotalArea(s) == SumOver([i \in 1..Len(s) |-> s[i][2] * s[i][3]], Len(s))

\* max(w for _, _, w, h in imgs), imgs non-empty
MaxImgW(s) == MaxOver([i \in 1..Len(s) |-> s[i][2]], Len(s))

\* max(h for _, _, w, h in imgs), imgs non-empty
MaxImgH(s) == MaxOver([i \in 1..Len(s) |-> s[i][3]], Len(s))

\* side = int(math.sqrt(total_area)) + 1
Side(s) == ISqrt(TotalArea(s)) + 1

\* width = max(side, max_img_w)
InitWidth(s) == Max2(Side(s), MaxImgW(s))

\* height = max(side, max_img_h)
InitHeight(s) == Max2(Side(s), MaxImgH(s))

\* key=lambda t: max(t[2], t[3])
SortKey(t) == Max2(t[2], t[3])

\* sorted(imgs, key=..., reverse=True): descending by key, and stable
\* (Python keeps the input order of equal keys, also with reverse=True)
SortedImgs(s) ==
    LET rank(i) == 1 + Cardinality({ j \in 1..Len(s) :
                        \/ SortKey(s[j]) > SortKey(s[i])
                        \/ SortKey(s[j]) = SortKey(s[i]) /\ j < i })
    IN [k \in 1..Len(s) |-> s[CHOOSE i \in 1..Len(s) : rank(i) = k]]

\* mutant of Grown: the test is strict, so a square bin grows in height
GrownStrict(w, h) == IF w < h THEN <<w * 2, h>> ELSE <<w, h * 2>>

\* lines 156-159: <<width, height>> after a failed attempt
Grown(w, h) == IF w <= h THEN <<w * 2, h>> ELSE <<w, h * 2>>

\* final_w = max(p[2] + p[4] for p in placed)
FinalW(p) == MaxOver([i \in 1..Len(p) |-> p[i][2] + p[i][4]], Len(p))

\* final_h = max(p[3] + p[5] for p in placed)
FinalH(p) == MaxOver([i \in 1..Len(p) |-> p[i][3] + p[i][5]], Len(p))

\* ---------------------------------------------------------------- inputs
\* an input of pack_rectangles: n items named 1..n, item i of size f[i]
Items(n, f) == [i \in 1..n |-> <<i, f[i][1], f[i][2]>>]

\* the inputs explored whose items all have positive sizes (the empty input
\* among them)
IsWellFormedInput(s) ==
    \E n \in 0..MaxItems :
        \E f \in [1..n -> (1..MaxDim) \X (1..MaxDim)] : s = Items(n, f)

\* the inputs explored that hold an item of width or height 0
IsDegenerateInput(s) ==
    \E n \in 1..MaxBadItems :
        \E f \in [1..n -> (0..MaxDim) \X (0..MaxDim)] :
            /\ \E i \in 1..n : f[i][1] = 0 \/ f[i][2] = 0
            /\ s = Items(n, f)

WellFormed(s) == Len(s) > 0 /\ \A i \in 1..Len(s) : s[i][2] > 0 /\ s[i][3] > 0

\* ---------------------------------------------------------------- states
\* a call pack_rectangles(imgs) about to run
InitPack ==
    /\ pc = "start"
    /\ IsWellFormedInput(imgs) \/ IsDegenerateInput(imgs)
    /\ sorted_imgs = << >>
    /\ width = 0
    /\ height = 0
    /\ free_rects = << >>
    /\ placed = << >>
    /\ idx = 0
    /\ final_w = 0
    /\ final_h = 0
    /\ err = ""
    /\ used = << >>
    /\ last = "-"
    /\ before = << >>
    /\ dropped = 0

\* a MaxRectsBin(width, height) just constructed, used on its own
InitBin ==
    /\ pc = "bin"
    /\ imgs = << >>
    /\ sorted_imgs = << >>
    /\ width \in 1..MaxBinSide
    /\ height \in 1..MaxBinSide
    /\ free_rects = InitFree(width, height)
    /\ placed = << >>
    /\ idx = 0
    /\ final_w = 0
    /\ final_h = 0
    /\ err = ""
    /\ used = << >>
    /\ last = "-"
    /\ before = << >>
    /\ dropped = 0

\* lines 128-138: sizing and sorting; max() of an empty sequence and
\* math.sqrt of a negative number raise ValueError
Start ==
    /\ pc = "start"
    /\ IF imgs = << >> \/ TotalArea(imgs) < 0
       THEN /\ pc' = "error"
            /\ err' = "ValueError"
            /\ UNCHANGED <<sorted_imgs, width, height>>
       ELSE /\ pc' = "attempt"
            /\ err' = err
            /\ width' = InitWidth(imgs)
            /\ height' = InitHeight(imgs)
            /\ sorted_imgs' = SortedImgs(imgs)
    /\ UNCHANGED <<imgs, free_rects, placed, idx, final_w, final_h, used, last,
                   before, dropped>>

\* mutant of BeginAttempt: placed is not emptied for the new attempt
BeginAttemptKeepsPlaced ==
    /\ pc = "attempt"
    /\ width <= MaxSide
    /\ height <= MaxSide
    /\ pc' = "placing"
    /\ free_rects' = InitFree(width, height)
    /\ used' = << >>
    /\ idx' = 1
    /\ UNCHANGED <<imgs, sorted_imgs, width, height, final_w, final_h, err, last,
                   before, dropped, placed>>

\* mutant of BeginAttempt: every attempt builds the bin of the first size
BeginAttemptFirstSize ==
    /\ pc = "attempt"
    /\ width <= MaxSide
    /\ height <= MaxSide
    /\ pc' = "placing"
    /\ free_rects' = InitFree(InitWidth(imgs), InitHeight(imgs))
    /\ placed' = << >>
    /\ used' = << >>
    /\ idx' = 1
    /\ UNCHANGED <<imgs, sorted_imgs, width, height, final_w, final_h, err, last,
                   before, dropped>>

\* lines 141-143: a fresh bin and an empty placed list for this attempt
BeginAttempt ==
    /\ pc = "attempt"
    /\ width <= MaxSide
    /\ height <= MaxSide
    /\ pc' = "placing"
    /\ free_rects' = InitFree(width, height)
    /\ placed' = << >>
    /\ used' = << >>
    /\ idx' = 1
    /\ UNCHANGED <<imgs, sorted_imgs, width, height, final_w, final_h, err, last,
                   before, dropped>>

\* MaxRectsBin.place(w, h), lines 47-76, on the current bin.  It returns
\* None (last' = "none") and leaves the free list alone, or hands out the
\* rectangle at best_rect's corner (appended to used), splits every free
\* rectangle that overlaps it and prunes.  (The locals are bound through
\* singletons.)
PlaceCall(w, h) ==
    /\ before' = free_rects
    /\ \E b \in {BestRect(free_rects, w, h)} :
          IF b = 0
          THEN /\ last' = "none"
               /\ UNCHANGED <<free_rects, used, dropped>>
          ELSE \E placedRect \in {PlacedRect(free_rects, b, w, h)} :
               \E new_free \in {SplitAll(free_rects, placedRect)} :
               \E pruned \in {Prune(new_free)} :
                  /\ free_rects' = pruned
                  /\ used' = Append(used, placedRect)
                  /\ last' = "ok"
                  /\ dropped' = Len(new_free) - Len(pruned)

\* lines 145-153: one iteration of the for loop, the call of place included
PlaceNext ==
    /\ pc = "placing"
    /\ \E name \in {sorted_imgs[idx][1]},
          w \in {sorted_imgs[idx][2]},
          h \in {sorted_imgs[idx][3]} :
          /\ PlaceCall(w, h)
          /\ IF last' = "none"
             THEN /\ pc' = "grow"
                  /\ UNCHANGED <<placed, idx>>
             ELSE /\ placed' = Append(placed,
                        <<name, used'[Len(used')][1], used'[Len(used')][2], w, h>>)
                  /\ idx' = idx + 1
                  /\ pc' = IF idx = Len(sorted_imgs) THEN "finish" ELSE "placing"
    /\ UNCHANGED <<imgs, sorted_imgs, width, height, final_w, final_h, err>>

\* lines 155-159: enlarge the bin and try again
Grow ==
    /\ pc = "grow"
    /\ pc' = "attempt"
    /\ width' = Grown(width, height)[1]
    /\ height' = Grown(width, height)[2]
    /\ UNCHANGED <<imgs, sorted_imgs, free_rects, placed, idx, final_w,
                   final_h, err, used, last, before, dropped>>

\* mutant of Finish: the size of the bin is returned
FinishBinSize ==
    /\ pc = "finish"
    /\ pc' = "done"
    /\ final_w' = width
    /\ final_h' = height
    /\ UNCHANGED <<imgs, sorted_imgs, width, height, free_rects, placed, idx,
                   err, used, last, before, dropped>>

\* lines 161-165: the tight bounding box, and return
Finish ==
    /\ pc = "finish"
    /\ pc' = "done"
    /\ final_w' = FinalW(placed)
    /\ final_h' = FinalH(placed)
    /\ UNCHANGED <<imgs, sorted_imgs, width, height, free_rects, placed, idx,
                   err, used, last, before, dropped>>

\* MaxRectsBin.place(w, h) called on a bare bin
BinPlace(w, h) ==
    /\ pc = "bin"
    /\ Len(used) < MaxPlaced
    /\ PlaceCall(w, h)
    /\ UNCHANGED <<pc, imgs, sorted_imgs, width, height, placed, idx,
                   final_w, final_h, err>>

BinPlaceAny == \E w \in 1..MaxPlaceDim, h \in 1..MaxPlaceDim : BinPlace(w, h)

\* ---------------------------------------------------------------- specifications
Init == InitPack

Next == Start \/ BeginAttempt \/ PlaceNext \/ Grow \/ Finish

\* pack_rectangles
Spec == Init /\ [][Next]_vars

\* pack_rectangles runs to its end: a single thread that is never suspended
FairSpec == Init /\ [][Next]_vars /\ WF_vars(Next)

NextBin == BinPlaceAny

\* a MaxRectsBin under any sequence of place calls
SpecBin == InitBin /\ [][NextBin]_vars

\* pack_rectangles and the bare bin side by side
InitAll == InitPack \/ InitBin

NextAll == Next \/ NextBin

SpecAll == InitAll /\ [][NextAll]_vars

\* ---------------------------------------------------------------- properties
\* two placements <<name, x, y, w, h>> are disjoint on at least one axis
DisjointPlacements(p, q) ==
    \/ p[2] + p[4] <= q[2]
    \/ q[2] + q[4] <= p[2]
    \/ p[3] + p[5] <= q[3]
    \/ q[3] + q[5] <= p[3]

\* two rectangles <<x, y, w, h>> are disjoint on at least one axis
DisjointRects(a, b) ==
    \/ a[1] + a[3] <= b[1]
    \/ b[1] + b[3] <= a[1]
    \/ a[2] + a[4] <= b[2]
    \/ b[2] + b[4] <= a[2]

\* the unit cell at (x, y) lies in rectangle r
CellIn(x, y, r) ==
    /\ r[1] <= x
    /\ x < r[1] + r[3]
    /\ r[2] <= y
    /\ y < r[2] + r[4]

\* rectangle r lies in the bin
InBin(r) ==
    /\ r[1] >= 0
    /\ r[2] >= 0
    /\ r[3] > 0
    /\ r[4] > 0
    /\ r[1] + r[3] <= width
    /\ r[2] + r[4] <= height

\* a bin exists (pack_rectangles is inside or after an attempt, or the bin
\* is a bare one) and every rectangle asked of it had positive sides
BinLive ==
    \/ pc = "bin"
    \/ pc \in {"placing", "grow", "finish", "done"} /\ WellFormed(imgs)

\* C1: for a well-formed input the placements pack_rectangles returns, and
\* at every moment the rectangles one MaxRectsBin has handed out, are
\* pairwise non-overlapping.
C1_NoOverlap ==
    /\ (pc \in {"placing", "grow", "finish", "done"} /\ WellFormed(imgs)) =>
          \A i, j \in 1..Len(placed) :
              i # j => DisjointPlacements(placed[i], placed[j])
    /\ BinLive =>
          \A i, j \in 1..Len(used) : i # j => DisjointRects(used[i], used[j])

C1_Witness ==
    /\ pc = "done"
    /\ WellFormed(imgs)
    /\ Len(placed) = 3
    /\ width > InitWidth(imgs)

\* C2: when pack_rectangles returns, placed holds exactly one placement per
\* input item, with the item's width and height, and nothing else (nothing
\* of an abandoned attempt).
C2_Complete ==
    pc = "done" =>
        /\ Len(placed) = Len(imgs)
        /\ \A i \in 1..Len(imgs) :
              \E j \in 1..Len(placed) :
                  /\ placed[j][1] = imgs[i][1]
                  /\ placed[j][4] = imgs[i][2]
                  /\ placed[j][5] = imgs[i][3]
        /\ \A j, k \in 1..Len(placed) :
              placed[j][1] = placed[k][1] => j = k

C2_Witness ==
    /\ pc = "done"
    /\ Len(imgs) = 3
    /\ width > InitWidth(imgs)
    /\ sorted_imgs # imgs

\* C3: the returned size is the tight bounding box of the placements: some
\* placement touches final_w and none passes it (the same for final_h),
\* every placement starts at non-negative coordinates, and the box is no
\* larger than the bin of the successful attempt.
C3_TightBox ==
    pc = "done" =>
        /\ \A i \in 1..Len(placed) :
              /\ placed[i][2] >= 0
              /\ placed[i][3] >= 0
              /\ placed[i][2] + placed[i][4] <= final_w
              /\ placed[i][3] + placed[i][5] <= final_h
        /\ \E i \in 1..Len(placed) : placed[i][2] + placed[i][4] = final_w
        /\ \E i \in 1..Len(placed) : placed[i][3] + placed[i][5] = final_h
        /\ final_w <= width
        /\ final_h <= height

C3_Witness ==
    /\ pc = "done"
    /\ Len(placed) >= 2
    /\ final_w < width
    /\ final_h < height

\* C4: an input that holds an item of non-positive width or height is
\* rejected with InvalidItemError before any bin is built: the run never
\* gets past its start except into that error.
C4_InvalidRejected ==
    (\E i \in 1..Len(imgs) : imgs[i][2] <= 0 \/ imgs[i][3] <= 0) =>
        \/ pc = "start"
        \/ pc = "error" /\ err = "InvalidItemError"

\* C5: the empty input fails with EmptyInputError (a dedicated error), and
\* nothing else happens.
C5_EmptyRejected ==
    (imgs = << >> /\ pc \notin {"start", "bin"}) =>
        pc = "error" /\ err = "EmptyInputError"

\* C6: for a well-formed input the loop reaches Success, and it is the only
\* place the run stops: every failed attempt is followed by a further
\* attempt.
C6_Terminates ==
    /\ (pc = "start" /\ WellFormed(imgs)) ~> (pc = "done")
    /\ (pc = "grow" /\ WellFormed(imgs)) ~> (pc = "placing")

C6_Witness ==
    /\ pc = "done"
    /\ WellFormed(imgs)
    /\ width > InitWidth(imgs)
    /\ height > InitHeight(imgs)

\* the s with (s - 1)^2 <= n < s^2, i.e. floor(sqrt(n)) + 1
IsSideOf(s, n) == s >= 1 /\ (s - 1) * (s - 1) <= n /\ n < s * s

\* m is the larger of s and the entries i -> s_[i][k] of the input
IsMaxWith(m, s, k) ==
    /\ m >= s
    /\ \A i \in 1..Len(imgs) : m >= imgs[i][k]
    /\ m = s \/ \E i \in 1..Len(imgs) : m = imgs[i][k]

\* C7: bin width and height never decrease; the step after a failed attempt
\* changes exactly one of them, doubling it: the width when width <= height,
\* else the height; the first attempt uses max(floor(sqrt(area)) + 1, max
\* item width) by max(floor(sqrt(area)) + 1, max item height).
C7_Growth ==
    [][ /\ width' >= width
        /\ height' >= height
        /\ pc = "grow" =>
              IF width <= height
              THEN width' = 2 * width /\ width' > width /\ height' = height
              ELSE height' = 2 * height /\ height' > height /\ width' = width
        /\ pc # "grow" /\ pc # "start" => width' = width /\ height' = height
        /\ (pc = "start" /\ pc' = "attempt") =>
              \E s \in 1..(TotalArea(imgs) + 1) :
                  /\ IsSideOf(s, TotalArea(imgs))
                  /\ IsMaxWith(width', s, 2)
                  /\ IsMaxWith(height', s, 3)
      ]_vars

C7_Witness ==
    /\ pc = "placing"
    /\ WellFormed(imgs)
    /\ width = 2 * InitWidth(imgs)
    /\ height = 2 * InitHeight(imgs)

\* C8: in a bin, after any sequence of successful place calls, every free
\* and every handed-out rectangle lies in the bin, every unit cell of the
\* bin is in a handed-out rectangle or in a free one, and no free rectangle
\* overlaps a handed-out one.
C8_Partition ==
    /\ \A i \in 1..Len(free_rects) : InBin(free_rects[i])
    /\ \A k \in 1..Len(used) : InBin(used[k])
    /\ \A x \in 0..(width - 1), y \in 0..(height - 1) :
          \/ \E k \in 1..Len(used) : CellIn(x, y, used[k])
          \/ \E i \in 1..Len(free_rects) : CellIn(x, y, free_rects[i])
    /\ \A i \in 1..Len(free_rects) :
          \A k \in 1..Len(used) : DisjointRects(free_rects[i], used[k])

C8_Witness ==
    /\ Len(used) >= 3
    /\ Len(free_rects) >= 2
    /\ \E i, j \in 1..Len(free_rects) :
          i # j /\ ~DisjointRects(free_rects[i], free_rects[j])

\* the list holds no value twice
NoDuplicates(fr) == \A i, j \in 1..Len(fr) : fr[i] = fr[j] => i = j

\* C9: no entry of free_rects lies inside another entry (so no two entries
\* are equal), and the list _prune is given in any next place call holds no
\* rectangle twice, so _prune never drops both copies of a region.
C9_NoContainment ==
    /\ \A i, j \in 1..Len(free_rects) :
          i # j => ~Inside(free_rects[i], free_rects[j])
    /\ \A w \in 1..width, h \in 1..height :
          LET b == BestRect(free_rects, w, h)
          IN b # 0 =>
               NoDuplicates(SplitAll(free_rects, PlacedRect(free_rects, b, w, h)))

C9_Witness ==
    /\ dropped >= 1
    /\ Len(free_rects) >= 2
    /\ Len(used) >= 3

\* a w x h rectangle at (x, y) lies in the bin and meets nothing handed out
EmptyAt(x, y, w, h) ==
    /\ x >= 0
    /\ y >= 0
    /\ x + w <= width
    /\ y + h <= height
    /\ \A k \in 1..Len(used) : DisjointRects(<<x, y, w, h>>, used[k])

\* an empty rectangle that cannot be extended by one cell on any side
MaximalEmpty(x, y, w, h) ==
    /\ EmptyAt(x, y, w, h)
    /\ ~EmptyAt(x - 1, y, w + 1, h)
    /\ ~EmptyAt(x, y - 1, w, h + 1)
    /\ ~EmptyAt(x, y, w + 1, h)
    /\ ~EmptyAt(x, y, w, h + 1)

\* C10: place(w, h) returns None only if no position of the bin is free for
\* a w x h rectangle; every maximal empty rectangle of the bin is an entry
\* of free_rects; and a place call that returns None leaves free_rects as
\* it was.
C10_PlaceComplete ==
    /\ \A w \in 1..width, h \in 1..height :
          /\ BestRect(free_rects, w, h) = 0 =>
                \A x \in 0..(width - w), y \in 0..(height - h) :
                    ~EmptyAt(x, y, w, h)
          /\ \A x \in 0..(width - w), y \in 0..(height - h) :
                MaximalEmpty(x, y, w, h) =>
                    \E i \in 1..Len(free_rects) : free_rects[i] = <<x, y, w, h>>
    /\ last = "none" => free_rects = before

C10_Witness ==
    /\ last = "none"
    /\ Len(free_rects) >= 2
    /\ Len(used) >= 3

====
